---- MODULE Spec2Model ----
(***************************************************************************)
(* Model of euler_filter.py (Blender "Euler Filter" add-on): the scalar    *)
(* unwrap naive_flip_diff, the flip transform flip_euler, the L1 metric    *)
(* euler_distance and the sequential pass euler_filter.                    *)
(*                                                                         *)
(* Angles are Python floats.  A float is modelled as a record: a finite    *)
(* value is an exact multiple of pi/PI (an integer number of grid units),  *)
(* and the IEEE special values NaN, +inf and -inf are kept apart, with the *)
(* arithmetic and the comparisons Python gives them.  Finite arithmetic is *)
(* exact: rounding of finite floats is not modelled.                       *)
(***************************************************************************)
EXTENDS Integers, Sequences

VARIABLES kfs, rotation_mode, pc, i, prev, ret, error, a1, a2, cand, upc

vars == <<kfs, rotation_mode, pc, i, prev, ret, error, a1, a2, cand, upc>>
passVars == <<kfs, rotation_mode, pc, i, prev, ret, error>>
loopVars == <<a1, a2, cand, upc>>

(***************************************************************************)
(* Bounds of the model and the grid.                                       *)
(***************************************************************************)
\* math.pi in grid units: one unit is pi/4 (45 degrees).
PI == 4
\* Longest keyframe sequence handed to euler_filter.
MaxLen == 3
\* Input angles of a pass lie Eps units inside the seam: 0 and +-(PI - Eps).
Eps == 1
\* Largest magnitude, in grid units, of the scalars given to the unwrap loop.
MaxAngle == 14
\* Iterations of the unwrap loop after which a run of it counts as not ending.
MaxIter == 6

(***************************************************************************)
(* Python floats.                                                          *)
(***************************************************************************)
Num(n) == [k |-> "num", v |-> n]
NaN == [k |-> "nan", v |-> 0]
PosInf == [k |-> "inf", v |-> 1]
NegInf == [k |-> "inf", v |-> 0 - 1]
\* The outcome of a while loop that never exits.
Diverged == [k |-> "diverged", v |-> 0]

IsFinite(x) == x.k = "num"
NonFinite == {NaN, PosInf, NegInf}

fneg(x) ==
    CASE x.k = "num" -> Num(0 - x.v)
      [] x.k = "inf" -> [k |-> "inf", v |-> 0 - x.v]
      [] OTHER -> NaN

fadd(x, y) ==
    CASE x.k = "nan" \/ y.k = "nan" -> NaN
      [] x.k = "inf" /\ y.k = "inf" -> IF x.v = y.v THEN x ELSE NaN
      [] x.k = "inf" -> x
      [] y.k = "inf" -> y
      [] OTHER -> Num(x.v + y.v)

fsub(x, y) == fadd(x, fneg(y))

fabs(x) ==
    CASE x.k = "num" -> Num(IF x.v < 0 THEN 0 - x.v ELSE x.v)
      [] x.k = "inf" -> PosInf
      [] OTHER -> NaN

\* x < y on floats: every comparison with NaN is False.
flt(x, y) ==
    CASE x.k = "nan" \/ y.k = "nan" -> FALSE
      [] x.k = "inf" /\ y.k = "inf" -> x.v < y.v
      [] x.k = "inf" -> x.v < 0
      [] y.k = "inf" -> y.v > 0
      [] OTHER -> x.v < y.v

fgt(x, y) == flt(y, x)

(***************************************************************************)
(* naive_flip_diff: the unwrap loop, as an operator.                       *)
(***************************************************************************)
\* unwrap_more with the threshold of a full turn instead of half a turn.
unwrap_more_2pi(r1, r2) == fgt(fabs(fsub(r1, r2)), Num(2 * PI))

\* unwrap_more looping also on a difference of exactly pi.
unwrap_more_ge(r1, r2) == ~flt(fabs(fsub(r1, r2)), Num(PI))

\* Line 84: the loop's condition.
unwrap_more(r1, r2) == fgt(fabs(fsub(r1, r2)), Num(PI))

\* Lines 85-88: the loop's body, giving the new a2.
unwrap_step(r1, r2) ==
    IF flt(r1, r2) THEN fsub(r2, Num(2 * PI)) ELSE fadd(r2, Num(2 * PI))

RECURSIVE naive_flip_diff_loop(_, _, _)
naive_flip_diff_loop(r1, r2, fuel) ==
    IF unwrap_more(r1, r2)
    THEN IF fuel = 0
         THEN Diverged
         ELSE naive_flip_diff_loop(r1, unwrap_step(r1, r2), fuel - 1)
    ELSE r2

naive_flip_diff(r1, r2) == naive_flip_diff_loop(r1, r2, MaxIter)

(***************************************************************************)
(* euler_distance, euler_axis_index, flip_euler.  A triple is a sequence   *)
(* of three floats; Python's index n is position n + 1.                    *)
(***************************************************************************)
euler_distance(e1, e2) ==
    fadd(fadd(fabs(fsub(e1[1], e2[1])), fabs(fsub(e1[2], e2[2]))),
         fabs(fsub(e1[3], e2[3])))

\* Python's None, as the index euler_axis_index gives an unknown label.
None == -1

euler_axis_index(axis) ==
    IF axis = "X" THEN 0
    ELSE IF axis = "Y" THEN 1
    ELSE IF axis = "Z" THEN 2
    ELSE None

\* flip_euler's result: the flipped triple, or the exception it raises.
Ok(t) == [err |-> "none", val |-> t]
Raise(name) == [err |-> name, val |-> <<>>]

\* flip_euler without the pi added to the middle axis after its negation.
flip_euler_no_middle_pi(euler, mode) ==
    LET inner == euler_axis_index(mode[1])
        outer == euler_axis_index(mode[3])
        middle == euler_axis_index(mode[2])
        r1 == [euler EXCEPT ![inner + 1] = fadd(@, Num(PI))]
        r2 == [r1 EXCEPT ![outer + 1] = fadd(@, Num(PI))]
        r3 == [r2 EXCEPT ![middle + 1] = fneg(@)]
    IN  Ok(r3)

\* flip_euler reflecting the middle axis only, the other two left alone.
flip_euler_middle_only(euler, mode) ==
    LET middle == euler_axis_index(mode[2])
        r3 == [euler EXCEPT ![middle + 1] = fneg(@)]
        r4 == [r3 EXCEPT ![middle + 1] = fadd(@, Num(PI))]
    IN  Ok(r4)

flip_euler(euler, mode) ==
    IF Len(mode) < 3
    THEN Raise("IndexError")
    ELSE LET inner == euler_axis_index(mode[1])
             outer == euler_axis_index(mode[3])
             middle == euler_axis_index(mode[2])
         IN  IF inner = None \/ outer = None \/ middle = None
             THEN Raise("TypeError")
             ELSE LET r1 == [euler EXCEPT ![inner + 1] = fadd(@, Num(PI))]
                      r2 == [r1 EXCEPT ![outer + 1] = fadd(@, Num(PI))]
                      r3 == [r2 EXCEPT ![middle + 1] = fneg(@)]
                      r4 == [r3 EXCEPT ![middle + 1] = fadd(@, Num(PI))]
                  IN  Ok(r4)

(***************************************************************************)
(* One iteration of euler_filter's loop, in the order the code computes.   *)
(***************************************************************************)
\* Lines 100-103 and 106-108: the per-axis unwrap of a triple against prev.
unwrap_axes(p, t) ==
    <<naive_flip_diff(p[1], t[1]), naive_flip_diff(p[2], t[2]),
      naive_flip_diff(p[3], t[3])>>

HasDiverged(t) == \E ax \in 1..3 : t[ax] = Diverged

\* select_euler with the comparison turned around.
select_euler_farther(p, e, fe) ==
    IF flt(euler_distance(p, e), euler_distance(p, fe)) THEN fe ELSE e

\* select_euler taking the flipped triple on a tie as well.
select_euler_nonstrict(p, e, fe) ==
    IF fgt(euler_distance(p, fe), euler_distance(p, e)) THEN e ELSE fe

\* Lines 110-116: the flipped triple replaces e only when it is strictly closer.
select_euler(p, e, fe) ==
    IF flt(euler_distance(p, fe), euler_distance(p, e)) THEN fe ELSE e

Keyframe(key, euler) == [key |-> key, rotation_euler |-> euler]

(***************************************************************************)
(* Inputs.                                                                 *)
(***************************************************************************)
\* The six rotation orders a bone's rotation_mode can name.
RotationOrders ==
    {<<"X", "Y", "Z">>, <<"X", "Z", "Y">>, <<"Y", "X", "Z">>,
     <<"Y", "Z", "X">>, <<"Z", "X", "Y">>, <<"Z", "Y", "X">>}

\* Values that are no permutation of X, Y, Z: a repeated axis, the leading
\* characters of Blender's 'QUATERNION' mode, and a string that is too short.
InvalidOrders == {<<"X", "X", "Z">>, <<"Q", "U", "A">>, <<"X", "Y">>}

IsPermutation(mode) == mode \in RotationOrders

\* Input angles: zero and the two angles Eps inside the seam at +-pi.
SeamAngles == {Num(0), Num(PI - Eps), Num(0 - (PI - Eps))}
SmallAngles == {Num(0), Num(PI - Eps)}

\* Input triples of a pass: X takes both sides of the seam, Y and Z zero and
\* the positive side.
Triples == {<<x, y, z>> : x \in SeamAngles, y \in SmallAngles, z \in SmallAngles}
SmallTriples == {<<x, y, z>> : x \in SmallAngles, y \in SmallAngles, z \in SmallAngles}

\* Frame numbers of n keyframes: unique and ascending.
FrameSeqs(n) ==
    {f \in [1..n -> 1..MaxLen] : \A j \in 1..(n - 1) : f[j] < f[j + 1]}

KeyframeSeqs(n, T) ==
    {[j \in 1..n |-> Keyframe(f[j], t[j])] : f \in FrameSeqs(n), t \in [1..n -> T]}

Inputs(T) == UNION {KeyframeSeqs(n, T) : n \in 0..MaxLen}

\* A sequence with one angle of one keyframe replaced by a non-finite float.
Poisoned(T) ==
    UNION {{[s EXCEPT ![j].rotation_euler[ax] = nf] :
               j \in 1..Len(s), ax \in 1..3, nf \in NonFinite} : s \in Inputs(T)}

HasNonFinite(s) ==
    \E j \in 1..Len(s) : \E ax \in 1..3 : ~IsFinite(s[j].rotation_euler[ax])

(***************************************************************************)
(* euler_filter as a state machine: pc is the position in the function.    *)
(***************************************************************************)
PassInit ==
    /\ pc = "start"
    /\ i = 0
    /\ prev = <<>>
    /\ ret = <<>>
    /\ error = "none"
    /\ a1 = Num(0)
    /\ a2 = Num(0)
    /\ cand = Num(0)
    /\ upc = "idle"

Init ==
    /\ kfs \in Inputs(Triples)
    /\ rotation_mode \in RotationOrders
    /\ PassInit

\* first_keyframe starting from the second keyframe.
first_keyframe_next(s) == s[2]

\* Lines 96-98: kfs[0], the keyframe the pass starts from.
first_keyframe(s) == s[1]

\* Lines 94-95: a sequence of at most one keyframe is returned as it is.
ReturnShort ==
    /\ pc = "start"
    /\ Len(kfs) <= 1
    /\ ret' = kfs
    /\ pc' = "returned"
    /\ UNCHANGED <<kfs, rotation_mode, i, prev, error, loopVars>>

\* Lines 96-98: prev is the first triple, ret starts with the first keyframe.
Begin ==
    /\ pc = "start"
    /\ Len(kfs) > 1
    /\ prev' = first_keyframe(kfs).rotation_euler
    /\ ret' = <<Keyframe(first_keyframe(kfs).key, first_keyframe(kfs).rotation_euler)>>
    /\ i' = 1
    /\ pc' = "loop"
    /\ UNCHANGED <<kfs, rotation_mode, error, loopVars>>

\* Lines 100-116: the body of one iteration, in the order the code runs it:
\* e (lines 100-103), fe (lines 105-108), then the choice (lines 110-116).
\* The outcome is the chosen triple, an exception of flip_euler, or a call of
\* naive_flip_diff that never returns.
filter_step(p, cur, mode) ==
    LET e == unwrap_axes(p, cur)
        flip == flip_euler(e, mode)
        fe == unwrap_axes(p, flip.val)
    IN  IF HasDiverged(e) THEN [out |-> "hung", err |-> "none", e |-> <<>>]
        ELSE IF flip.err # "none" THEN [out |-> "raised", err |-> flip.err, e |-> <<>>]
        ELSE IF HasDiverged(fe) THEN [out |-> "hung", err |-> "none", e |-> <<>>]
        ELSE [out |-> "ok", err |-> "none", e |-> select_euler(p, e, fe)]

\* emitted_key reading the keyframe before the current one.
emitted_key_prev(s, n) == s[n].key

\* Line 117: the key of the keyframe appended in iteration n (Python index n).
emitted_key(s, n) == s[n + 1].key

\* Lines 99-118: one iteration that runs to its end.
Iterate ==
    /\ pc = "loop"
    /\ i < Len(kfs)
    /\ LET s == filter_step(prev, kfs[i + 1].rotation_euler, rotation_mode)
       IN  /\ s.out = "ok"
           /\ prev' = s.e
           /\ ret' = Append(ret, Keyframe(emitted_key(kfs, i), s.e))
    /\ i' = i + 1
    /\ UNCHANGED <<kfs, rotation_mode, pc, error, loopVars>>

\* Line 105 raising inside flip_euler: the exception leaves euler_filter.
IterateRaise ==
    /\ pc = "loop"
    /\ i < Len(kfs)
    /\ LET s == filter_step(prev, kfs[i + 1].rotation_euler, rotation_mode)
       IN  /\ s.out = "raised"
           /\ error' = s.err
    /\ pc' = "raised"
    /\ UNCHANGED <<kfs, rotation_mode, i, prev, ret, loopVars>>

\* Lines 101-103 or 106-108: a call of naive_flip_diff whose loop never exits.
IterateHang ==
    /\ pc = "loop"
    /\ i < Len(kfs)
    /\ filter_step(prev, kfs[i + 1].rotation_euler, rotation_mode).out = "hung"
    /\ pc' = "hung"
    /\ UNCHANGED <<kfs, rotation_mode, i, prev, ret, error, loopVars>>

\* Line 119.
Return ==
    /\ pc = "loop"
    /\ i = Len(kfs)
    /\ pc' = "returned"
    /\ UNCHANGED <<kfs, rotation_mode, i, prev, ret, error, loopVars>>

Next == ReturnShort \/ Begin \/ Iterate \/ Return

Spec == Init /\ [][Next]_vars

\* The pass with any rotation_mode value the caller may hand over.
InitOrder ==
    /\ kfs \in Inputs(SmallTriples)
    /\ rotation_mode \in RotationOrders \cup InvalidOrders
    /\ PassInit

NextOrder == ReturnShort \/ Begin \/ Iterate \/ IterateRaise \/ Return

SpecOrder == InitOrder /\ [][NextOrder]_vars

\* The pass over sequences that hold a non-finite angle.
InitNonFinite ==
    /\ kfs \in Poisoned(SmallTriples)
    /\ rotation_mode \in RotationOrders
    /\ PassInit

NextNonFinite == ReturnShort \/ Begin \/ Iterate \/ IterateHang \/ Return

SpecNonFinite == InitNonFinite /\ [][NextNonFinite]_vars

(***************************************************************************)
(* naive_flip_diff as a state machine: one step per iteration of its while *)
(* loop, on finite scalars a1 (the reference) and a2; cand keeps the       *)
(* argument a2 was called with.                                            *)
(***************************************************************************)
Scalars == {Num(n) : n \in (0 - MaxAngle)..MaxAngle}

InitUnwrap ==
    /\ a1 \in Scalars
    /\ a2 \in Scalars
    /\ cand = a2
    /\ upc = "loop"
    /\ kfs = <<>>
    /\ rotation_mode = <<"X", "Y", "Z">>
    /\ pc = "idle"
    /\ i = 0
    /\ prev = <<>>
    /\ ret = <<>>
    /\ error = "none"

\* Lines 84-88: the condition holds and the body runs once.
LoopStep ==
    /\ upc = "loop"
    /\ unwrap_more(a1, a2)
    /\ a2' = unwrap_step(a1, a2)
    /\ UNCHANGED <<a1, cand, upc, passVars>>

\* Lines 84 and 90: the condition fails and a2 is returned.
LoopExit ==
    /\ upc = "loop"
    /\ ~unwrap_more(a1, a2)
    /\ upc' = "done"
    /\ UNCHANGED <<a1, a2, cand, passVars>>

NextUnwrap == LoopStep \/ LoopExit

\* The loop is sequential code: while it can take a step it takes it.
SpecUnwrap == InitUnwrap /\ [][NextUnwrap]_vars /\ WF_vars(NextUnwrap)

(***************************************************************************)
(* Properties.  Triples of finite floats are compared through their grid   *)
(* values.                                                                 *)
(***************************************************************************)
Abs(n) == IF n < 0 THEN 0 - n ELSE n
\* The L1 distance of two finite triples, in grid units.
L1(t, u) == Abs(t[1].v - u[1].v) + Abs(t[2].v - u[2].v) + Abs(t[3].v - u[3].v)
\* Per axis, t is u plus an integer multiple of 2 pi.
Congruent(t, u) == \A ax \in 1..3 : (t[ax].v - u[ax].v) % (2 * PI) = 0
\* The position of the order's middle axis in a triple.
MiddleAxis(mode) == CASE mode[2] = "X" -> 1 [] mode[2] = "Y" -> 2 [] OTHER -> 3
\* The flip of the specification: pi - middle, and pi added to the other two.
FlipOf(t, mode) ==
    [ax \in 1..3 |-> IF ax = MiddleAxis(mode) THEN Num(PI - t[ax].v)
                     ELSE Num(t[ax].v + PI)]
\* The triples of iteration j (keyframe j, 2 <= j <= Len(ret)): the reference,
\* the step-1 candidate, and the flipped candidate unwrapped again.
RefAt(j) == ret[j - 1].rotation_euler
CandAt(j) == unwrap_axes(RefAt(j), kfs[j].rotation_euler)
FlippedAt(j) == unwrap_axes(RefAt(j), FlipOf(CandAt(j), rotation_mode))
Emitted == 2..Len(ret)
Zero3 == <<Num(0), Num(0), Num(0)>>

\* C1: the output has the input's length and, index by index, the input's
\* times; during the loop the same holds of the prefix emitted so far.
C1_LengthAndTimes ==
    /\ pc = "returned" => Len(ret) = Len(kfs)
    /\ pc = "loop" => Len(ret) = i /\ i <= Len(kfs)
    /\ pc \in {"loop", "returned"} =>
           \A j \in 1..Len(ret) : ret[j].key = kfs[j].key

\* A returned pass of two or more keyframes whose frame numbers skip a frame.
C1_Witness ==
    /\ pc = "returned"
    /\ Len(ret) >= 2
    /\ ret[Len(ret)].key > Len(ret)

\* C2: every emitted triple is the input triple at its index, or the flip of
\* that input triple, up to integer multiples of 2 pi on each axis.
C2_OrientationKept ==
    pc \in {"loop", "returned"} =>
        \A j \in 1..Len(ret) :
            \/ Congruent(ret[j].rotation_euler, kfs[j].rotation_euler)
            \/ Congruent(ret[j].rotation_euler,
                         FlipOf(kfs[j].rotation_euler, rotation_mode))

\* A returned pass whose last triple is the flipped one, after a carried step.
C2_Witness ==
    /\ pc = "returned"
    /\ Len(ret) = MaxLen
    /\ Len(ret) > 1
    /\ ~Congruent(ret[Len(ret)].rotation_euler, kfs[Len(ret)].rotation_euler)

\* C3: an emitted triple is never farther from the triple emitted before it
\* than the step-1 candidate is.
C3_NeverFarther ==
    pc \in {"loop", "returned"} =>
        \A j \in Emitted :
            L1(RefAt(j), ret[j].rotation_euler) <= L1(RefAt(j), CandAt(j))

\* A step where the emitted triple is strictly closer than the candidate.
C3_Witness ==
    /\ pc = "returned"
    /\ \E j \in Emitted :
           L1(RefAt(j), ret[j].rotation_euler) < L1(RefAt(j), CandAt(j))

\* The scenario of C4 at iteration j: order XYZ, reference (0, 0, 0), input
\* (0, pi - eps, 0).
C4_Scenario(j) ==
    /\ rotation_mode = <<"X", "Y", "Z">>
    /\ RefAt(j) = Zero3
    /\ kfs[j].rotation_euler = <<Num(0), Num(PI - Eps), Num(0)>>

\* C4 as stated: in the scenario the flipped triple is chosen, so the emitted
\* triple is strictly closer to the reference than the candidate.
C4_FlipChosen ==
    pc \in {"loop", "returned"} =>
        \A j \in Emitted :
            C4_Scenario(j) =>
                L1(RefAt(j), ret[j].rotation_euler) < L1(RefAt(j), CandAt(j))

\* C4 as the code behaves: in the scenario the flipped triple (pi, eps, pi)
\* lies 2 pi + eps from the reference, farther than the candidate's pi - eps,
\* so the candidate is kept and the two distances are equal.
C4_CandidateKept ==
    pc \in {"loop", "returned"} =>
        \A j \in Emitted :
            C4_Scenario(j) =>
                /\ ret[j].rotation_euler = kfs[j].rotation_euler
                /\ L1(RefAt(j), ret[j].rotation_euler) = PI - Eps
                /\ L1(RefAt(j), CandAt(j)) = PI - Eps
                /\ L1(RefAt(j), FlippedAt(j)) = 2 * PI + Eps

C4_Witness == pc = "returned" /\ \E j \in Emitted : C4_Scenario(j)

\* The scenario of C5: three keyframes whose X angles cross the seam twice,
\* pi - eps, -(pi - eps), pi - eps with a jump of more than pi, Y and Z zero.
C5_SeamScenario ==
    /\ 2 * Eps < PI
    /\ Len(kfs) = 3
    /\ \A j \in 1..3 :
           kfs[j].rotation_euler =
               <<Num(IF j = 2 THEN 0 - (PI - Eps) ELSE PI - Eps), Num(0), Num(0)>>

\* C5: consecutive emitted triples differ by at most pi on every axis, and in
\* the seam scenario by strictly less than pi.
C5_NoSeamJump ==
    pc \in {"loop", "returned"} =>
        \A j \in Emitted : \A ax \in 1..3 :
            /\ Abs(ret[j].rotation_euler[ax].v - RefAt(j)[ax].v) <= PI
            /\ C5_SeamScenario =>
                   Abs(ret[j].rotation_euler[ax].v - RefAt(j)[ax].v) < PI

\* The seam scenario filtered to its end, an unwrap having moved the X angle.
C5_Witness ==
    /\ pc = "returned"
    /\ C5_SeamScenario
    /\ ret[2].rotation_euler[1] # kfs[2].rotation_euler[1]

\* C6: the first keyframe is emitted unchanged, prev starts as its triple, and
\* a sequence of length 0 or 1 is returned equal to the input.
C6_FirstUntouched ==
    /\ (pc \in {"loop", "returned"} /\ Len(kfs) >= 1) => ret[1] = kfs[1]
    /\ (pc = "loop" /\ i = 1) => prev = kfs[1].rotation_euler
    /\ (pc = "returned" /\ Len(kfs) <= 1) => ret = kfs

\* A returned pass of full length in which a later keyframe was rewritten.
C6_Witness ==
    /\ pc = "returned"
    /\ Len(kfs) = MaxLen
    /\ \E j \in Emitted : ret[j] # kfs[j]

\* C7: with a rotation order that is no permutation of X, Y, Z the first flip
\* fails, so a pass over two or more keyframes emits nothing past the first
\* keyframe and returns no sequence.
C7_InvalidOrderFails ==
    (~IsPermutation(rotation_mode) /\ Len(kfs) >= 2) =>
        (pc # "returned" /\ Len(ret) <= 1)

\* C8: a pass over a sequence holding a non-finite angle ends by signalling an
\* error: it neither returns a sequence nor stays in the unwrap loop.
C8_NonFiniteRejected ==
    HasNonFinite(kfs) => pc \notin {"returned", "hung"}

\* C9: the emitted triple is the flipped one exactly when the flipped one is
\* strictly closer to the reference; otherwise, ties included, it is the
\* candidate; and prev is the triple emitted last.
C9_StrictSelection ==
    pc \in {"loop", "returned"} =>
        /\ \A j \in Emitted :
               /\ ret[j].rotation_euler = FlippedAt(j)
                      <=> L1(RefAt(j), FlippedAt(j)) < L1(RefAt(j), CandAt(j))
               /\ ret[j].rotation_euler # FlippedAt(j)
                      => ret[j].rotation_euler = CandAt(j)
        /\ (pc = "loop" /\ Len(ret) >= 1) => prev = ret[Len(ret)].rotation_euler

\* A tie: both distances equal, and the candidate emitted.
C9_Witness ==
    /\ pc = "returned"
    /\ \E j \in Emitted :
           /\ L1(RefAt(j), FlippedAt(j)) = L1(RefAt(j), CandAt(j))
           /\ ret[j].rotation_euler = CandAt(j)

\* The whole turns the unwrap loop can add or take away within its bounds.
Turns == (0 - MaxIter)..MaxIter

====
